---- MODULE Spec2Model ----
(***************************************************************************)
(* A model of falsevisir.py: the registration-and-fusion pipeline of       *)
(* process_pair (load, resize, warp_images, blend, false colour, show,     *)
(* save) and the pure functions it is built from.                          *)
(*                                                                         *)
(* Numbers.  Float samples and weights in [0,1] are fixed point with One   *)
(* standing for 1.0.  Entries of a transform's params matrix are fixed     *)
(* point in hundredths, or one of the IEEE specials NaN, +Inf, -Inf.       *)
(*                                                                         *)
(* Images.  An image is its shape (h rows, w columns) and the samples v    *)
(* of one pixel position: <<g>> for a 2-D (grey) array, <<r, g, b>> for    *)
(* an RGB array.  blend_image, false_image and rgb2gray act pixel by       *)
(* pixel, so what they do to v is what they do to every pixel.  The        *)
(* resampling routines (transform.resize, transform.warp) fix the shape of *)
(* their result; the samples they interpolate are a free choice.           *)
(***************************************************************************)
EXTENDS Integers, Sequences, FiniteSets

VARIABLES
    pc,            \* position in process_pair / in the function under study
    show, save,    \* process_pair's arguments
    irr_weight,    \* CFG['irr_weight']
    vi_image,      \* process_pair's vi_image (None before load)
    ir_image,      \* process_pair's ir_image
    images,        \* warp_images' images = vis, irr (None outside it)
    new_height,    \* resize_images' new_height argument (0: not given)
    images_small,  \* result of resize_images(images, new_height)
    matches,       \* len(matches) in warp_images (-1: not computed)
    model_robust,  \* the model of sk.measure.ransac (None, or a params matrix)
    edits,         \* number of entries of model_robust set by hand
    valid,         \* result of transformation_valid(model_robust)
    full_tf,       \* the transform handed to warp_image (None before)
    warped,        \* result of warp_image: <<warp_0, warp_1>>
    weight,        \* the weight argument blend_image was called with
    blend_im,      \* process_pair's blend_im
    false_im,      \* process_pair's false_im
    written,       \* the output files written so far
    err            \* the exception that ended the run ("" while none)

vars == <<pc, show, save, irr_weight, vi_image, ir_image, images, new_height,
          images_small, matches, model_robust, edits, valid, full_tf, warped,
          weight, blend_im, false_im, written, err>>

None == <<>>

----------------------------------------------------------------------------
(* Bounds of the model *)

MaxDim == 3        \* image heights and widths range over 1..MaxDim
MaxMatches == 12   \* the matcher returns 0..MaxMatches correspondences
MaxEdits == 2      \* entries of a params matrix set to arbitrary values

----------------------------------------------------------------------------
(* Fixed point *)

One == 2 * 10000
Half == One \div 2
Samples == {0, Half, One}
Weights == {0, One \div 4, Half, 3 * (One \div 4), One}

----------------------------------------------------------------------------
(* CFG *)

min_samples == 10
downsize == 500
default_irr_weight == Half

\* model_robust_param_limits, in hundredths
mmin == << <<-1000, -100, -10000>>,
           <<-100, -200, -10000>>,
           <<-10, -2, 0>> >>
mmax == << <<1000, 100, 10000>>,
           <<100, 200, 10000>>,
           <<10, 2, 200>> >>

----------------------------------------------------------------------------
(* Images *)

Image(h, w, v) == [h |-> h, w |-> w, v |-> v]

\* im.ndim
ndim(im) == IF Len(im.v) = 1 THEN 2 ELSE 3

GreyPixels == {<<g>> : g \in Samples}
RGBPixels == {<<r, g, b>> : r \in Samples, g \in Samples, b \in Samples}

\* skimage.color.rgb2gray on one pixel: 0.2125 R + 0.7154 G + 0.0721 B
rgb2gray(px) == (2125 * px[1] + 7154 * px[2] + 721 * px[3]) \div 10000

\* np.dstack((irr, irr, irr)) on one pixel of a 2-D array
dstack3(px) == <<px[1], px[1], px[1]>>

blend_image_irr_first(vis, irr, w) ==
    LET irr3 == IF ndim(irr) = 2 THEN dstack3(irr.v) ELSE irr.v
    IN  Image(vis.h, vis.w,
              [ch \in 1..3 |-> (w * vis.v[ch] + (One - w) * irr3[ch]) \div One])

blend_image(vis, irr, w) ==
    LET irr3 == IF ndim(irr) = 2 THEN dstack3(irr.v) ELSE irr.v
    IN  Image(vis.h, vis.w,
              [ch \in 1..3 |-> ((One - w) * vis.v[ch] + w * irr3[ch]) \div One])

false_image_rgb_shifted(vis, irr) ==
    LET grey == IF ndim(irr) > 2 THEN rgb2gray(irr.v) ELSE irr.v[1]
    IN  Image(vis.h, vis.w, <<grey, vis.v[2], vis.v[3]>>)

false_image(vis, irr) ==
    LET grey == IF ndim(irr) > 2 THEN rgb2gray(irr.v) ELSE irr.v[1]
    IN  Image(vis.h, vis.w, <<grey, vis.v[1], vis.v[2]>>)

----------------------------------------------------------------------------
(* resize_images: shapes only; transform.resize returns the shape asked for *)

Min(S) == CHOOSE x \in S : \A y \in S : x <= y

\* round(a / b), halves up, for a >= 0 and b > 0
RoundDiv(a, b) == (2 * a + b) \div (2 * b)

\* transform.resize(im, shape): the result has the shape asked for and
\* keeps the channels of im; px are the interpolated samples
resize(im, shape, px) == Image(shape[1], shape[2], px)

resize_images_rounded(ims, nh, px) ==
    LET heights == {ims[i].h : i \in DOMAIN ims}
        H == IF nh # 0 THEN nh ELSE Min(heights)
    IN  [i \in DOMAIN ims |->
            resize(ims[i], <<H, RoundDiv(ims[i].w * H, ims[i].h)>>, px[i])]

\* new_height = new_height or min(heights);
\* each image is resized to (new_height, w * new_height // h)
resize_images(ims, nh, px) ==
    LET heights == {ims[i].h : i \in DOMAIN ims}
        H == IF nh # 0 THEN nh ELSE Min(heights)
    IN  [i \in DOMAIN ims |->
            resize(ims[i], <<H, (ims[i].w * H) \div ims[i].h>>, px[i])]

----------------------------------------------------------------------------
(* Transform parameters *)

Fin(n) == [k |-> "fin", n |-> n]
NaN == [k |-> "nan", n |-> 0]
PInf == [k |-> "pinf", n |-> 0]
NInf == [k |-> "ninf", n |-> 0]

isnan(e) == e.k = "nan"
\* e > lim and e < lim as IEEE compares them: false for NaN
Greater(e, lim) == (e.k = "fin" /\ e.n > lim) \/ e.k = "pinf"
Less(e, lim) == (e.k = "fin" /\ e.n < lim) \/ e.k = "ninf"

Idx == 1..3

transformation_valid_upper_only(params) ==
    IF \E i \in Idx, j \in Idx : isnan(params[i][j])
    THEN FALSE
    ELSE \A i \in Idx, j \in Idx : Less(params[i][j], mmax[i][j])

transformation_valid(params) ==
    IF \E i \in Idx, j \in Idx : isnan(params[i][j])
    THEN FALSE
    ELSE /\ \A i \in Idx, j \in Idx : Greater(params[i][j], mmin[i][j])
         /\ \A i \in Idx, j \in Idx : Less(params[i][j], mmax[i][j])

----------------------------------------------------------------------------
(* Projective transforms as integer 3x3 matrices in homogeneous form: a    *)
(* matrix and its multiples by a positive factor are the same transform,   *)
(* so matrices are kept in lowest terms.  Coordinates are exact rationals  *)
(* <<n, d>> with d > 0.                                                    *)

Abs(x) == IF x < 0 THEN -x ELSE x

RECURSIVE Gcd(_, _)
Gcd(a, b) == IF b = 0 THEN a ELSE Gcd(b, a % b)

Gcd9(M) ==
    LET g1 == Gcd(Gcd(Abs(M[1][1]), Abs(M[1][2])), Abs(M[1][3]))
        g2 == Gcd(Gcd(Abs(M[2][1]), Abs(M[2][2])), Abs(M[2][3]))
        g3 == Gcd(Gcd(Abs(M[3][1]), Abs(M[3][2])), Abs(M[3][3]))
    IN  Gcd(Gcd(g1, g2), g3)

Lowest(M) ==
    LET g == Gcd9(M)
    IN  IF g = 0 THEN M ELSE [i \in Idx |-> [j \in Idx |-> M[i][j] \div g]]

MatMul(A, B) ==
    [i \in Idx |-> [j \in Idx |->
        A[i][1] * B[1][j] + A[i][2] * B[2][j] + A[i][3] * B[3][j]]]

\* a + b of skimage transforms: apply a, then b (params: b.params @ a.params)
Plus(a, b) == Lowest(MatMul(b, a))

\* transform.SimilarityTransform(scale = num / den)
SimilarityScale(num, den) == << <<num, 0, 0>>, <<0, num, 0>>, <<0, 0, den>> >>

Det(M) ==
      M[1][1] * (M[2][2] * M[3][3] - M[2][3] * M[3][2])
    - M[1][2] * (M[2][1] * M[3][3] - M[2][3] * M[3][1])
    + M[1][3] * (M[2][1] * M[3][2] - M[2][2] * M[3][1])

\* the integer matrix of a params matrix whose entries are all finite
IntMatrix(params) == [i \in Idx |-> [j \in Idx |-> params[i][j].n]]

Rat(n, d) == IF d < 0 THEN <<-n, -d>> ELSE <<n, d>>
RatLe(a, b) == a[1] * b[2] <= b[1] * a[2]
RatMin(S) == CHOOSE a \in S : \A b \in S : RatLe(a, b)
RatMax(S) == CHOOSE a \in S : \A b \in S : RatLe(b, a)
RatSub(a, b) == <<a[1] * b[2] - b[1] * a[2], a[2] * b[2]>>
Floor(a) == a[1] \div a[2]
Ceil(a) == -((-a[1]) \div a[2])

\* the homogeneous image of (x, y) under M
Hom(M, p) == [i \in Idx |-> M[i][1] * p[1] + M[i][2] * p[2] + M[i][3]]

\* model(corners): defined unless a corner has a zero third coordinate
Apply(M, p) == <<Rat(Hom(M, p)[1], Hom(M, p)[3]), Rat(Hom(M, p)[2], Hom(M, p)[3])>>

----------------------------------------------------------------------------
(* warp_image *)

\* corners of images[0]: (x, y) = (0,0), (0,r), (c,0), (c,r)
Corners(im) == {<<0, 0>>, <<0, im.h>>, <<im.w, 0>>, <<im.w, im.h>>}

\* model_robust(corners) is finite and (model_robust + offset).inverse exists
Warpable(ims, M) ==
    /\ \A p \in Corners(ims[1]) : Hom(M, p)[3] # 0
    /\ Det(M) # 0

all_corners(ims, M) ==
    {Apply(M, p) : p \in Corners(ims[1])}
        \cup {<<Rat(p[1], 1), Rat(p[2], 1)>> : p \in Corners(ims[1])}

\* corner_max - corner_min, as (x extent, y extent)
Extent(ims, M) ==
    LET xs == {q[1] : q \in all_corners(ims, M)}
        ys == {q[2] : q \in all_corners(ims, M)}
    IN  <<RatSub(RatMax(xs), RatMin(xs)), RatSub(RatMax(ys), RatMin(ys))>>

output_shape_floor(ims, M) ==
    <<Floor(Extent(ims, M)[2]), Floor(Extent(ims, M)[1])>>

\* output_shape = np.ceil((corner_max - corner_min)[::-1]): (rows, cols)
output_shape(ims, M) ==
    <<Ceil(Extent(ims, M)[2]), Ceil(Extent(ims, M)[1])>>

\* transform.warp(im, inverse_map, output_shape = shape, cval = 0): the
\* result has the shape asked for; px are the resampled samples
warp(im, shape, px) == Image(shape[1], shape[2], px)

\* returns warp_0, warp_1
warp_image(ims, M, px) ==
    << warp(ims[1], output_shape(ims, M), px[1]),
       warp(ims[2], output_shape(ims, M), px[2]) >>

----------------------------------------------------------------------------
(* process_pair *)

AllFiles == {"vi_warp", "ir_warp", "blend", "falsecolor"}

\* what load_image may return for the two paths
LoadedVis == {Image(2, 2, <<One, 0, Half>>), Image(3, 4, <<0, One, One>>),
              Image(2, 3, <<Half>>)}
LoadedIr == {Image(2, 3, <<Half>>), Image(4, 4, <<One, 0, 0>>)}

\* samples a resampling routine may produce for an image with the channels of im
Resampled(im) ==
    IF ndim(im) = 2 THEN {<<Half>>, <<One>>}
    ELSE {<<One, 0, Half>>, <<0, Half, One>>}

Identity == << <<Fin(100), Fin(0), Fin(0)>>,
               <<Fin(0), Fin(100), Fin(0)>>,
               <<Fin(0), Fin(0), Fin(100)>> >>

\* models the robust fit may return
RansacModels ==
    { Identity,
      [Identity EXCEPT ![1][3] = Fin(150), ![2][3] = Fin(-250)],
      [Identity EXCEPT ![1][1] = Fin(110), ![2][2] = Fin(110), ![3][1] = Fin(5)],
      [Identity EXCEPT ![3][1] = Fin(500)],
      [Identity EXCEPT ![1][1] = Fin(2500)],
      [Identity EXCEPT ![1][1] = Fin(0)],
      [i \in Idx |-> [j \in Idx |-> NaN]] }

Fail(e) ==
    /\ pc' = "failed"
    /\ err' = e

\* vi_image, ir_image = [load_image(fp) for fp in (vi_path, ir_path)]
Load ==
    /\ pc = "start"
    /\ \/ /\ \E vi \in LoadedVis, ir \in LoadedIr :
                /\ vi_image' = vi
                /\ ir_image' = ir
          /\ pc' = "loaded"
          /\ UNCHANGED err
       \/ /\ Fail("DecodeError")
          /\ UNCHANGED <<vi_image, ir_image>>
    /\ UNCHANGED <<show, save, irr_weight, images, new_height, images_small,
                   matches, model_robust, edits, valid, full_tf, warped, weight,
                   blend_im, false_im, written>>

\* vi_image, ir_image = resize_images((vi_image, ir_image))
Resize ==
    /\ pc = "loaded"
    /\ \E pv \in Resampled(vi_image), pi \in Resampled(ir_image) :
          LET r == resize_images(<<vi_image, ir_image>>, 0, <<pv, pi>>)
          IN  /\ vi_image' = r[1]
              /\ ir_image' = r[2]
    /\ pc' = "resized"
    /\ UNCHANGED <<show, save, irr_weight, images, new_height, images_small,
                   matches, model_robust, edits, valid, full_tf, warped, weight,
                   blend_im, false_im, written, err>>

\* irr[:, :, 0]
channel0(im) == Image(im.h, im.w, <<im.v[1]>>)

\* warp_images up to the matcher: the assertion, the channel reduction, the
\* downsizing and the matching of the descriptors
Match ==
    /\ pc = "resized"
    /\ \/ /\ ndim(vi_image) # 3
          /\ Fail("AssertionError")
          /\ UNCHANGED <<images, images_small, matches>>
       \/ /\ ndim(vi_image) = 3
          /\ LET irr == IF ndim(ir_image) > 2 THEN channel0(ir_image) ELSE ir_image
             IN  /\ images' = <<vi_image, irr>>
                 /\ images_small' =
                        resize_images(<<vi_image, irr>>, downsize, <<vi_image.v, irr.v>>)
          /\ \E n \in 0..MaxMatches : matches' = n
          /\ pc' = "matched"
          /\ UNCHANGED err
    /\ UNCHANGED <<show, save, irr_weight, vi_image, ir_image, new_height,
                   model_robust, edits, valid, full_tf, warped, weight, blend_im,
                   false_im, written>>

ransac_rejects_only_empty(n) == n < 1

\* sk.measure.ransac raises when it is given fewer samples than min_samples
ransac_rejects(n) == n < min_samples

\* releases of skimage differ on exactly min_samples samples
ransac_may_reject(n) == n <= min_samples

\* model_robust, inliers = sk.measure.ransac(..., min_samples=CFG['min_samples'], ...)
Ransac ==
    /\ pc = "matched"
    /\ \/ /\ ransac_may_reject(matches)
          /\ Fail("ValueError: min_samples")
          /\ UNCHANGED model_robust
       \/ /\ ~ransac_rejects(matches)
          /\ \E m \in RansacModels \cup {None} : model_robust' = m
          /\ pc' = "fitted"
          /\ UNCHANGED err
    /\ UNCHANGED <<show, save, irr_weight, vi_image, ir_image, images, new_height,
                   images_small, matches, edits, valid, full_tf, warped, weight,
                   blend_im, false_im, written>>

ValidateNoRaise ==
    /\ pc = "fitted"
    /\ \/ /\ model_robust = None
          /\ Fail("AttributeError")
       \/ /\ model_robust # None
          /\ pc' = "validated"
          /\ UNCHANGED err
    /\ UNCHANGED <<show, save, irr_weight, vi_image, ir_image, images, new_height,
                   images_small, matches, model_robust, edits, valid, full_tf,
                   warped, weight, blend_im, false_im, written>>

\* logging.debug(f"... {model_robust.params}")
\* if not transformation_valid(model_robust): raise ValueError("Transformation failed, ...")
Validate ==
    /\ pc = "fitted"
    /\ \/ /\ model_robust = None
          /\ Fail("AttributeError")
       \/ /\ model_robust # None
          /\ ~transformation_valid(model_robust)
          /\ Fail("Transformation failed")
       \/ /\ model_robust # None
          /\ transformation_valid(model_robust)
          /\ pc' = "validated"
          /\ UNCHANGED err
    /\ UNCHANGED <<show, save, irr_weight, vi_image, ir_image, images, new_height,
                   images_small, matches, model_robust, edits, valid, full_tf,
                   warped, weight, blend_im, false_im, written>>

\* full_tf = S_down + model_robust + S_up, with downsize_scale = downsize / orig_height
rescale(M, orig_height) ==
    Plus(Plus(SimilarityScale(downsize, orig_height), M),
         SimilarityScale(orig_height, downsize))

\* S_down = ...; S_up = ...; full_tf = S_down + model_robust + S_up
Rescale ==
    /\ pc = "validated"
    /\ full_tf' = rescale(IntMatrix(model_robust), images[1].h)
    /\ pc' = "rescaled"
    /\ UNCHANGED <<show, save, irr_weight, vi_image, ir_image, images, new_height,
                   images_small, matches, model_robust, edits, valid, warped,
                   weight, blend_im, false_im, written, err>>

\* vis, irr = warp_image(images, full_tf) and the return to process_pair,
\* where the locals of warp_images end:
\* vi_image, ir_image = warp_images(vi_image, ir_image, show=False)
Warp ==
    /\ pc = "rescaled"
    /\ \/ /\ ~Warpable(images, full_tf)
          /\ Fail("WarpError")
          /\ UNCHANGED <<vi_image, ir_image, images, images_small, matches,
                         model_robust, full_tf>>
       \/ /\ Warpable(images, full_tf)
          /\ \E pv \in Resampled(images[1]), pi \in Resampled(images[2]) :
                LET w == warp_image(images, full_tf, <<pv, pi>>)
                IN  /\ vi_image' = w[1]
                    /\ ir_image' = w[2]
          /\ images' = None
          /\ images_small' = None
          /\ matches' = -1
          /\ model_robust' = None
          /\ full_tf' = None
          /\ pc' = "warped"
          /\ UNCHANGED err
    /\ UNCHANGED <<show, save, irr_weight, new_height, edits, valid, warped,
                   weight, blend_im, false_im, written>>

\* blend_im = blend_image(vi_image, ir_image, weight=.5)
Blend ==
    /\ pc = "warped"
    /\ weight' = Half
    /\ blend_im' = blend_image(vi_image, ir_image, weight')
    /\ pc' = "blended"
    /\ UNCHANGED <<show, save, irr_weight, vi_image, ir_image, images, new_height,
                   images_small, matches, model_robust, edits, valid, full_tf,
                   warped, false_im, written, err>>

\* false_im = false_image(vi_image, ir_image)
FalseColor ==
    /\ pc = "blended"
    /\ false_im' = false_image(vi_image, ir_image)
    /\ pc' = "falsed"
    /\ UNCHANGED <<show, save, irr_weight, vi_image, ir_image, images, new_height,
                   images_small, matches, model_robust, edits, valid, full_tf,
                   warped, weight, blend_im, written, err>>

\* if show: show_images(...)   -- nothing catches what show_images raises
Show ==
    /\ pc = "falsed"
    /\ \/ /\ ~show
          /\ pc' = "shown"
          /\ UNCHANGED err
       \/ /\ show
          /\ pc' = "shown"
          /\ UNCHANGED err
       \/ /\ show
          /\ Fail("DisplayError")
    /\ UNCHANGED <<show, save, irr_weight, vi_image, ir_image, images, new_height,
                   images_small, matches, model_robust, edits, valid, full_tf,
                   warped, weight, blend_im, false_im, written>>

\* if save: ... dst_dir.mkdir(exist_ok=True)
Mkdir ==
    /\ pc = "shown"
    /\ \/ /\ ~save
          /\ pc' = "done"
          /\ UNCHANGED err
       \/ /\ save
          /\ pc' = "save_vi_warp"
          /\ UNCHANGED err
       \/ /\ save
          /\ Fail("OSError")
    /\ UNCHANGED <<show, save, irr_weight, vi_image, ir_image, images, new_height,
                   images_small, matches, model_robust, edits, valid, full_tf,
                   warped, weight, blend_im, false_im, written>>

\* save_image(fpath, im): imwrite writes the file or raises
save_image(file, next) ==
    /\ pc = "save_" \o file
    /\ \/ /\ written' = written \cup {file}
          /\ pc' = next
          /\ UNCHANGED err
       \/ /\ Fail("EncodeError")
          /\ UNCHANGED written
    /\ UNCHANGED <<show, save, irr_weight, vi_image, ir_image, images, new_height,
                   images_small, matches, model_robust, edits, valid, full_tf,
                   warped, weight, blend_im, false_im>>

SaveViWarp == save_image("vi_warp", "save_ir_warp")
SaveIrWarp == save_image("ir_warp", "save_blend")
SaveBlend == save_image("blend", "save_falsecolor")
SaveFalseColor == save_image("falsecolor", "done")

Init ==
    /\ pc = "start"
    /\ show \in BOOLEAN
    /\ save \in BOOLEAN
    /\ irr_weight \in Weights
    /\ vi_image = None
    /\ ir_image = None
    /\ images = None
    /\ new_height = 0
    /\ images_small = None
    /\ matches = -1
    /\ model_robust = None
    /\ edits = 0
    /\ valid = FALSE
    /\ full_tf = None
    /\ warped = None
    /\ weight = 0
    /\ blend_im = None
    /\ false_im = None
    /\ written = {}
    /\ err = ""

Next ==
    \/ Load
    \/ Resize
    \/ Match
    \/ Ransac
    \/ Validate
    \/ Rescale
    \/ Warp
    \/ Blend
    \/ FalseColor
    \/ Show
    \/ Mkdir
    \/ SaveViWarp
    \/ SaveIrWarp
    \/ SaveBlend
    \/ SaveFalseColor

Spec == Init /\ [][Next]_vars

----------------------------------------------------------------------------
(* transformation_valid on its own: a params matrix, some of whose entries *)
(* are set to arbitrary values, is checked.                                *)

\* values an entry at (i, j) is set to: at, next to and between the limits
\* of its position, the example 5, and the IEEE specials
EntryValues(i, j) ==
    { Fin(mmin[i][j] - 1), Fin(mmin[i][j]), Fin((mmin[i][j] + mmax[i][j]) \div 2),
      Fin(mmax[i][j]), Fin(mmax[i][j] + 1), Fin(500), NaN, PInf, NInf }

ValidModels ==
    { Identity,
      [Identity EXCEPT ![1][1] = Fin(110), ![2][2] = Fin(110), ![3][1] = Fin(5)] }

InitValid ==
    /\ pc = "model"
    /\ model_robust \in ValidModels
    /\ edits = 0
    /\ valid = FALSE
    /\ show = FALSE /\ save = FALSE /\ irr_weight = default_irr_weight
    /\ vi_image = None /\ ir_image = None /\ images = None
    /\ new_height = 0 /\ images_small = None /\ matches = -1
    /\ full_tf = None /\ warped = None /\ weight = 0
    /\ blend_im = None /\ false_im = None /\ written = {} /\ err = ""

SetEntry ==
    /\ pc = "model"
    /\ edits < MaxEdits
    /\ \E i \in Idx, j \in Idx :
          \E e \in EntryValues(i, j) :
             model_robust' = [model_robust EXCEPT ![i][j] = e]
    /\ edits' = edits + 1
    /\ UNCHANGED <<pc, show, save, irr_weight, vi_image, ir_image, images,
                   new_height, images_small, matches, valid, full_tf, warped,
                   weight, blend_im, false_im, written, err>>

\* valid = transformation_valid(model_robust)
CheckValid ==
    /\ pc = "model"
    /\ valid' = transformation_valid(model_robust)
    /\ pc' = "checked"
    /\ UNCHANGED <<show, save, irr_weight, vi_image, ir_image, images,
                   new_height, images_small, matches, model_robust, edits,
                   full_tf, warped, weight, blend_im, false_im, written, err>>

NextValid ==
    \/ SetEntry
    \/ CheckValid

SpecValid == InitValid /\ [][NextValid]_vars

----------------------------------------------------------------------------
(* warp_image on its own: two images and any model *)

Dims == 1..MaxDim

\* models with scale, shear, translation and a perspective term, among them
\* ones that send a corner to a negative or zero third coordinate
WarpModels ==
    { << <<s, b, tx>>, <<0, s, ty>>, <<g, 0, i>> >> :
        s \in {-1, 1, 2}, b \in {0, 1}, tx \in {-3, 0, 2}, ty \in {0, 1},
        g \in {-1, 0, 1}, i \in {1, 2} }

InitWarp ==
    /\ pc = "args"
    /\ \E h \in Dims, w \in Dims, n \in Dims :
          \E pi \in {<<Half>>, <<One, 0, 0>>} :
             images = <<Image(h, w, <<One, 0, Half>>), Image(n, n, pi)>>
    /\ full_tf \in WarpModels
    /\ warped = None
    /\ show = FALSE /\ save = FALSE /\ irr_weight = default_irr_weight
    /\ vi_image = None /\ ir_image = None
    /\ new_height = 0 /\ images_small = None /\ matches = -1
    /\ model_robust = None /\ edits = 0 /\ valid = FALSE /\ weight = 0
    /\ blend_im = None /\ false_im = None /\ written = {} /\ err = ""

\* warped = warp_image(images, full_tf)
WarpImage ==
    /\ pc = "args"
    /\ \/ /\ ~Warpable(images, full_tf)
          /\ Fail("WarpError")
          /\ UNCHANGED warped
       \/ /\ Warpable(images, full_tf)
          /\ \E pv \in Resampled(images[1]), pi \in Resampled(images[2]) :
                warped' = warp_image(images, full_tf, <<pv, pi>>)
          /\ pc' = "returned"
          /\ UNCHANGED err
    /\ UNCHANGED <<show, save, irr_weight, vi_image, ir_image, images,
                   new_height, images_small, matches, model_robust, edits, valid,
                   full_tf, weight, blend_im, false_im, written>>

NextWarp == WarpImage

SpecWarp == InitWarp /\ [][NextWarp]_vars

----------------------------------------------------------------------------
(* blend_image and false_image on their own *)

InitComp ==
    /\ pc = "args"
    /\ \E h \in 1..2 :
          /\ vi_image \in {Image(h, 2, v) : v \in RGBPixels}
          /\ ir_image \in {Image(h, 2, v) : v \in GreyPixels \cup RGBPixels}
    /\ weight \in Weights
    /\ blend_im = None
    /\ false_im = None
    /\ show = FALSE /\ save = FALSE /\ irr_weight = default_irr_weight
    /\ images = None /\ new_height = 0 /\ images_small = None /\ matches = -1
    /\ model_robust = None /\ edits = 0 /\ valid = FALSE
    /\ full_tf = None /\ warped = None /\ written = {} /\ err = ""

\* blend_im = blend_image(vi_image, ir_image, weight)
BlendCall ==
    /\ pc = "args"
    /\ blend_im' = blend_image(vi_image, ir_image, weight)
    /\ pc' = "blended"
    /\ UNCHANGED <<show, save, irr_weight, vi_image, ir_image, images,
                   new_height, images_small, matches, model_robust, edits, valid,
                   full_tf, warped, weight, false_im, written, err>>

\* false_im = false_image(vi_image, ir_image)
FalseCall ==
    /\ pc = "args"
    /\ false_im' = false_image(vi_image, ir_image)
    /\ pc' = "falsed"
    /\ UNCHANGED <<show, save, irr_weight, vi_image, ir_image, images,
                   new_height, images_small, matches, model_robust, edits, valid,
                   full_tf, warped, weight, blend_im, written, err>>

NextComp ==
    \/ BlendCall
    \/ FalseCall

SpecComp == InitComp /\ [][NextComp]_vars

----------------------------------------------------------------------------
(* resize_images on its own *)

\* the inputs: two images and a new_height (0: none) for which no output
\* is empty, as transform.resize needs
InitResize ==
    /\ pc = "args"
    /\ \E h1 \in Dims, w1 \in Dims, h2 \in Dims, w2 \in Dims :
          images = <<Image(h1, w1, <<One, 0, Half>>), Image(h2, w2, <<Half>>)>>
    /\ new_height \in 0..(MaxDim + 1)
    /\ \A i \in DOMAIN images :
          resize_images(images, new_height, <<None, None>>)[i].w >= 1
    /\ images_small = None
    /\ show = FALSE /\ save = FALSE /\ irr_weight = default_irr_weight
    /\ vi_image = None /\ ir_image = None /\ matches = -1
    /\ model_robust = None /\ edits = 0 /\ valid = FALSE
    /\ full_tf = None /\ warped = None /\ weight = 0
    /\ blend_im = None /\ false_im = None /\ written = {} /\ err = ""

\* images_small = resize_images(images, new_height)
ResizeCall ==
    /\ pc = "args"
    /\ \E pv \in Resampled(images[1]), pi \in Resampled(images[2]) :
          images_small' = resize_images(images, new_height, <<pv, pi>>)
    /\ pc' = "returned"
    /\ UNCHANGED <<show, save, irr_weight, vi_image, ir_image, images,
                   new_height, matches, model_robust, edits, valid, full_tf,
                   warped, weight, blend_im, false_im, written, err>>

NextResize == ResizeCall

SpecResize == InitResize /\ [][NextResize]_vars

----------------------------------------------------------------------------
(* Properties *)

\* C1: in warp_images, whenever the model the robust fit returned fails
\* transformation_valid, the run is stopped by the "Transformation failed"
\* error before the rescaling and the warp: the run is still at the
\* validation or has failed with that error, no transform was handed to
\* warp_image, and nothing was composited or written.
C1_InvalidModelStops ==
    (model_robust # None /\ ~transformation_valid(model_robust)) =>
        /\ pc \in {"fitted", "failed"}
        /\ pc = "failed" => err = "Transformation failed"
        /\ full_tf = None
        /\ blend_im = None /\ false_im = None /\ written = {}

C1_Witness ==
    /\ pc = "failed"
    /\ err = "Transformation failed"
    /\ model_robust = [Identity EXCEPT ![3][1] = Fin(500)]

\* C2: when the matcher yields fewer correspondences than min_samples (zero
\* included), the fit fails: no model is returned and the run never goes on
\* to validate, warp or composite.
C2_TooFewMatchesStops ==
    (matches # -1 /\ matches < min_samples) =>
        /\ model_robust = None
        /\ pc \in {"matched", "failed"}
        /\ pc = "failed" => err = "ValueError: min_samples"
        /\ full_tf = None
        /\ blend_im = None /\ false_im = None /\ written = {}

C2_Witness ==
    /\ pc = "failed"
    /\ err = "ValueError: min_samples"
    /\ matches = 0

\* C3: a run of process_pair with save enabled that ends in a fatal error has
\* written none of the four output files.
C3_AllOrNothing ==
    (pc = "failed" /\ save) => written = {}

\* C4: warp_image returns two outputs of the same height and width, which
\* are the least integers not below the extents of the union bounding box of
\* the corners of images[0] and their images under the model.
C4_SharedCanvas ==
    pc = "returned" =>
        LET pts == all_corners(images, full_tf)
            Fits(n, k) ==
                \A a \in pts, b \in pts : RatLe(RatSub(a[k], b[k]), <<n, 1>>)
            Tight(n, k) ==
                \E a \in pts, b \in pts : ~RatLe(RatSub(a[k], b[k]), <<n - 1, 1>>)
        IN  /\ warped[1].h = warped[2].h
            /\ warped[1].w = warped[2].w
            /\ Fits(warped[1].w, 1) /\ Tight(warped[1].w, 1)
            /\ Fits(warped[1].h, 2) /\ Tight(warped[1].h, 2)

C4_Witness ==
    /\ pc = "returned"
    /\ images[1].h # images[2].h
    /\ images[1].w # images[2].w
    /\ warped[1].w > images[1].w
    /\ warped[2].h > images[1].h
    /\ full_tf[3][3] = 2

\* C5: transformation_valid rejects every model with at least one entry that
\* is NaN, +Inf or -Inf or lies outside the limits of its position, whatever
\* the other entries are.
C5_BadEntryRejected ==
    LET Outside(e, i, j) ==
            e.k # "fin" \/ e.n < mmin[i][j] \/ e.n > mmax[i][j]
    IN  (pc = "checked"
            /\ \E i \in Idx, j \in Idx : Outside(model_robust[i][j], i, j))
        => valid = FALSE

C5_Witness ==
    /\ pc = "checked"
    /\ model_robust = [Identity EXCEPT ![3][1] = Fin(500)]
    /\ valid = FALSE

\* C6: false_image returns an image of the inputs' height and width with
\* exactly 3 channels (IR grey, VIS red, VIS green): channel 0 is the same for
\* every vis (the sample of a grey ir, the common value of an ir with equal
\* channels), channels 1 and 2 are vis channels 0 and 1, and the output is the
\* same whatever the VIS blue channel holds.
C6_FalseColorChannels ==
    pc = "falsed" =>
        /\ false_im.h = vi_image.h /\ false_im.w = vi_image.w
        /\ Len(false_im.v) = 3
        /\ false_im.v[2] = vi_image.v[1]
        /\ false_im.v[3] = vi_image.v[2]
        /\ \A v \in RGBPixels :
              false_image(Image(vi_image.h, vi_image.w, v), ir_image).v[1]
                  = false_im.v[1]
        /\ ndim(ir_image) = 2 => false_im.v[1] = ir_image.v[1]
        /\ (ndim(ir_image) = 3 /\ ir_image.v[1] = ir_image.v[2]
                /\ ir_image.v[2] = ir_image.v[3]) => false_im.v[1] = ir_image.v[1]
        /\ \A b \in Samples :
              false_image([vi_image EXCEPT !.v[3] = b], ir_image) = false_im

C6_Witness ==
    /\ pc = "falsed"
    /\ ndim(ir_image) = 3
    /\ vi_image.v = <<0, Half, One>>
    /\ false_im.v[2] = 0 /\ false_im.v[3] = Half

\* C7: blend_image returns, per channel, (1 - w) * vis + w * ir with a grey ir
\* replicated to three channels; w = 0 returns vis, w = 1 returns the
\* replicated ir, and every output sample stays in [0, 1].
C7_BlendIsConvex ==
    pc = "blended" =>
        LET ir3 == IF Len(ir_image.v) = 1
                   THEN <<ir_image.v[1], ir_image.v[1], ir_image.v[1]>>
                   ELSE ir_image.v
        IN  /\ Len(blend_im.v) = 3
            /\ \A ch \in 1..3 :
                  /\ blend_im.v[ch] * One
                        = (One - weight) * vi_image.v[ch] + weight * ir3[ch]
                  /\ 0 <= blend_im.v[ch] /\ blend_im.v[ch] <= One
            /\ weight = 0 => blend_im.v = vi_image.v
            /\ weight = One => blend_im.v = ir3

C7_Witness ==
    /\ pc = "blended"
    /\ weight = One
    /\ ir_image.v = <<Half>>
    /\ vi_image.v = <<One, 0, One>>
    /\ blend_im.v = <<Half, Half, Half>>

\* C8: when show_images raises in a run of process_pair with show and save
\* enabled, the four output images are still saved: such a run ends with
\* all four files written.
C8_DisplayFailureStillSaves ==
    (pc \in {"done", "failed"} /\ show /\ save /\ err = "DisplayError")
        => written = AllFiles

\* C9: the blend that process_pair produces is computed with the configured
\* weight CFG['irr_weight'], whatever that is set to.
C9_BlendUsesConfiguredWeight ==
    blend_im # None =>
        /\ weight = irr_weight
        /\ blend_im = blend_image(vi_image, ir_image, irr_weight)

\* the height resize_images resizes to
TargetHeight ==
    IF new_height # 0 THEN new_height
    ELSE Min({images[i].h : i \in DOMAIN images})

\* C10 (as claimed): every image resize_images returns has height H and width
\* round(orig_width * H / orig_height), whichever way halves are rounded.
C10_RoundedWidth ==
    pc = "returned" =>
        \A i \in DOMAIN images :
            /\ images_small[i].h = TargetHeight
            /\ 2 * Abs(images_small[i].w * images[i].h - images[i].w * TargetHeight)
                  <= images[i].h

\* C10 (amended): every image resize_images returns has height H and width
\* floor(orig_width * H / orig_height), for inputs where that is at least 1;
\* H is the given height, or the minimum of the input heights when none is
\* given.
C10_FlooredWidth ==
    pc = "returned" =>
        \A i \in DOMAIN images :
            /\ images_small[i].h = TargetHeight
            /\ images_small[i].w * images[i].h <= images[i].w * TargetHeight
            /\ images[i].w * TargetHeight < (images_small[i].w + 1) * images[i].h

C10_Witness ==
    /\ pc = "returned"
    /\ images[1].h = 3 /\ images[1].w = 2
    /\ images[2].h = 2 /\ images[2].w = 3
    /\ new_height = 4
    /\ images_small[1].h = 4 /\ images_small[1].w = 2
    /\ images_small[2].h = 4 /\ images_small[2].w = 6

====
